---- MODULE Spec2Model ----
(***************************************************************************)
(* Model of src/main.rs: parse_macho / read_header / add_rpath.            *)
(*                                                                         *)
(* A byte is a number in 0..255 and the buffer (Vec<u8>) is a sequence of  *)
(* bytes.  A u32 is kept at its width as a pair <<hi, lo>> of 16-bit       *)
(* halves, so that the magic numbers (above 2^31) and the wrap-around of   *)
(* u32 arithmetic are represented exactly.  Offsets into the buffer        *)
(* (usize / u64 in the source) are plain numbers.                          *)
(***************************************************************************)
EXTENDS Integers, Sequences, FiniteSets, TLC

\* ------------------------------------------------------------------ bounds
MaxCmds == 2
MaxPathLen == 8
MaxCalls == 1

\* ------------------------------------------------------- program constants
MH_MAGIC == <<65261, 64206>>
MH_CIGAM == <<52986, 60926>>
MH_MAGIC_64 == <<65261, 64207>>
MH_CIGAM_64 == <<53242, 60926>>
LC_RPATH == <<32768, 28>>

\* ------------------------------------------------------------ u32 helpers
Half == 65536

FromInt(n) == <<n \div Half, n % Half>>

\* only for values below 2^31
ToInt(w) == w[1] * Half + w[2]

\* a u32 that is larger than every offset of the model
IsSmall(w) == w[1] < 16384

\* a + b on u32: the wrapped value and whether the true sum left the width
AddU32(a, b) ==
  LET lo == a[2] + b[2]
      hi == a[1] + b[1] + (lo \div Half)
  IN [v |-> <<hi % Half, lo % Half>>, overflow |-> hi >= Half]

\* a - b on u32: the wrapped value and whether the true difference is negative
SubU32(a, b) ==
  LET lo == a[2] - b[2]
      hi == a[1] - b[1] - (IF lo < 0 THEN 1 ELSE 0)
  IN [v |-> <<(hi + Half) % Half, (lo + Half) % Half>>, overflow |-> hi < 0]

\* i < w for a small number i and a u32 w
LessIntU32(i, w) == w[1] > 0 \/ i < w[2]

BytesBE(w) == <<w[1] \div 256, w[1] % 256, w[2] \div 256, w[2] % 256>>

BytesLE(w) == <<w[2] % 256, w[2] \div 256, w[1] % 256, w[1] \div 256>>

\* the 4 bytes at 0-based offset p decoded in either order
U32BE(s, p) == <<s[p + 1] * 256 + s[p + 2], s[p + 3] * 256 + s[p + 4]>>

U32LE(s, p) == <<s[p + 4] * 256 + s[p + 3], s[p + 2] * 256 + s[p + 1]>>

\* Cursor::read_u32::<T>: fails with UnexpectedEof when fewer than 4 bytes are left
ReadU32(s, p, le) ==
  IF p + 4 > Len(s)
  THEN [ok |-> FALSE, v |-> <<0, 0>>]
  ELSE [ok |-> TRUE, v |-> IF le THEN U32LE(s, p) ELSE U32BE(s, p)]

Zeros(n) == [i \in 1..n |-> 0]

Max(a, b) == IF a >= b THEN a ELSE b

\* Write for Cursor<&mut Vec<u8>>: a gap before pos is zero-filled, bytes inside
\* the vector are overwritten, bytes past its end extend it
WriteAt(vec, pos, bytes) ==
  LET padded == IF pos > Len(vec) THEN vec \o Zeros(pos - Len(vec)) ELSE vec
  IN [i \in 1..Max(Len(padded), pos + Len(bytes)) |->
        IF i > pos /\ i <= pos + Len(bytes) THEN bytes[i - pos] ELSE padded[i]]

\* Read::read_to_end for a Cursor at pos: the bytes from pos on, none past the end
ReadToEnd(vec, pos) ==
  IF pos >= Len(vec) THEN <<>> ELSE SubSeq(vec, pos + 1, Len(vec))

RECURSIVE SumSizes(_)
SumSizes(cmds) ==
  IF cmds = <<>> THEN 0 ELSE ToInt(Head(cmds).cmdsize) + SumSizes(Tail(cmds))

\* ------------------------------------------------------------- parse_macho
NoHeader ==
  [magic |-> <<0, 0>>, cputype |-> <<0, 0>>, cpusubtype |-> <<0, 0>>,
   filetype |-> <<0, 0>>, ncmds |-> <<0, 0>>, sizeofcmds |-> <<0, 0>>,
   flags |-> <<0, 0>>, reserved |-> <<0, 0>>]

\* read_header::<T>: seven u32/i32 fields from offset 0, an eighth for 64-bit.
\* The i32 fields keep their 32 bits (two's complement), which is all the
\* program ever does with them.
read_header(s, le, is64) ==
  LET n == IF is64 THEN 8 ELSE 7
      f == [i \in 0..7 |-> ReadU32(s, 4 * i, le)]
  IN IF \E i \in 0..(n - 1) : ~f[i].ok
     THEN [ok |-> FALSE, header |-> NoHeader, pos |-> 0]
     ELSE [ok |-> TRUE,
           header |-> [magic |-> f[0].v, cputype |-> f[1].v, cpusubtype |-> f[2].v,
                       filetype |-> f[3].v, ncmds |-> f[4].v, sizeofcmds |-> f[5].v,
                       flags |-> f[6].v,
                       reserved |-> IF is64 THEN f[7].v ELSE <<0, 0>>],
           pos |-> 4 * n]

\* The loop of parse_macho over 0..header.ncmds, from cursor position pos with
\* i records read so far.  `checks` is the build's overflow-checks setting:
\* with it `cmdsize - 8` panics below 8, without it the difference wraps and
\* the vector of that length cannot be filled from the buffer.
RECURSIVE ReadLoadCommands(_, _, _, _, _, _, _)
ReadLoadCommands(s, pos, i, ncmds, le, checks, acc) ==
  IF ~LessIntU32(i, ncmds)
  THEN [status |-> "ok", kind |-> "none", undersized |-> FALSE, cmds |-> acc]
  ELSE
    LET c == ReadU32(s, pos, le)
        z == ReadU32(s, pos + 4, le)
        d == SubU32(z.v, <<0, 8>>)
    IN IF ~c.ok \/ ~z.ok
       THEN [status |-> "err", kind |-> "UnexpectedEof", undersized |-> FALSE,
             cmds |-> <<>>]
       ELSE IF d.overflow /\ checks
       THEN [status |-> "panic", kind |-> "SubOverflow", undersized |-> TRUE,
             cmds |-> <<>>]
       ELSE IF ~IsSmall(d.v) \/ pos + 8 + ToInt(d.v) > Len(s)
       THEN [status |-> "err", kind |-> "UnexpectedEof", undersized |-> d.overflow,
             cmds |-> <<>>]
       ELSE ReadLoadCommands(s, pos + 8 + ToInt(d.v), i + 1, ncmds, le, checks,
              Append(acc, [cmd |-> c.v, cmdsize |-> z.v,
                           data |-> SubSeq(s, pos + 9, pos + 8 + ToInt(d.v))]))

\* the match on the magic, read big-endian: (is_64, is_little_endian)
MatchMagic(magic) ==
  IF magic = MH_MAGIC THEN [ok |-> TRUE, is_64 |-> FALSE, le |-> FALSE]
  ELSE IF magic = MH_CIGAM THEN [ok |-> TRUE, is_64 |-> FALSE, le |-> TRUE]
  ELSE IF magic = MH_MAGIC_64 THEN [ok |-> TRUE, is_64 |-> TRUE, le |-> FALSE]
  ELSE IF magic = MH_CIGAM_64 THEN [ok |-> TRUE, is_64 |-> TRUE, le |-> TRUE]
  ELSE [ok |-> FALSE, is_64 |-> FALSE, le |-> FALSE]

ParseFail(kind, m) ==
  [status |-> "err", kind |-> kind, undersized |-> FALSE,
   is_64 |-> m.is_64, is_little_endian |-> m.le,
   header |-> NoHeader, load_commands |-> <<>>]

parse_macho(s, checks) ==
  LET first == ReadU32(s, 0, FALSE)
      m == MatchMagic(first.v)
      h == read_header(s, m.le, m.is_64)
      r == ReadLoadCommands(s, h.pos, 0, h.header.ncmds, m.le, checks, <<>>)
  IN IF ~first.ok THEN ParseFail("UnexpectedEof", [is_64 |-> FALSE, le |-> FALSE])
     ELSE IF ~m.ok THEN ParseFail("InvalidData", m)
     ELSE IF ~h.ok THEN ParseFail("UnexpectedEof", m)
     ELSE [status |-> r.status, kind |-> r.kind, undersized |-> r.undersized,
           is_64 |-> m.is_64, is_little_endian |-> m.le,
           header |-> IF r.status = "ok" THEN h.header ELSE NoHeader,
           load_commands |-> r.cmds]

\* --------------------------------------------------------------- add_rpath
\* header_size compared against the magic as the bytes lie in a swapped file
\* only: read_header has already decoded it, so a 64-bit file gets 28
HeaderSizeRawMagic(hdr) ==
  IF hdr.magic = MH_CIGAM_64 THEN 32 ELSE 28

\* header_size, from the magic as read_header decoded it
HeaderSize(hdr) ==
  IF hdr.magic = MH_MAGIC_64 \/ hdr.magic = MH_CIGAM_64 THEN 32 ELSE 28

\* path_len = new_path.len() + 1; cmdsize = (8 + path_len + 7) & !7
CmdSize(path) == ((8 + (Len(path) + 1) + 7) \div 8) * 8

\* insert_offset: header_size plus every parsed record's cmdsize
InsertOffset(hsize, cmds) == hsize + SumSizes(cmds)

\* the bytes add_rpath writes for the new record, in the order it writes them:
\* tag, cmdsize and the constant 16 little-endian, the path, a zero byte, and
\* cmdsize - (8 + path_len) zero bytes of padding
RpathBytes(path) ==
  BytesLE(LC_RPATH) \o BytesLE(FromInt(CmdSize(path))) \o BytesLE(<<0, 16>>)
    \o path \o <<0>> \o Zeros(CmdSize(path) - (8 + (Len(path) + 1)))

\* the two counters as written at offset 16, both little-endian
CounterBytes(ncmds, sizeofcmds) == BytesLE(ncmds) \o BytesLE(sizeofcmds)

\* ------------------------------------------------------------------ state
VARIABLES
  data,              \* add_rpath's data: &mut Vec<u8> (line 100)
  new_path,          \* add_rpath's new_path: &str (line 100)
  overflow_checks,   \* the build: TRUE panics on integer overflow, FALSE wraps
                     \* (the arithmetic of lines 69, 143 and 144)
  pc,                \* position in add_rpath: "idle" (not in a call), "parsed"
                     \* (after line 101), "spliced" (after line 140), "done"
  result,            \* "none", "ok" (line 150), "err" (line 101), "panic"
  err_kind,          \* the io::ErrorKind of an error, the cause of a panic
  undersized,        \* line 69 was reached with cmdsize < 8
  is_64,             \* parse_macho's is_64 (line 41)
  is_little_endian,  \* parse_macho's is_little_endian (line 41)
  header,            \* add_rpath's header (line 101, updated at 143-144)
  load_commands,     \* add_rpath's load_commands (line 101)
  header_size,       \* line 104, 0 before it
  cmdsize,           \* line 112, 0 before it
  insert_offset,     \* lines 115-118, 0 before them
  pre,               \* the buffer as the current call received it
  calls              \* calls that have returned

vars ==
  <<data, new_path, overflow_checks, pc, result, err_kind, undersized, is_64,
    is_little_endian, header, load_commands, header_size, cmdsize,
    insert_offset, pre, calls>>

\* ----------------------------------------------------------------- inputs
\* the four magics as they lie in a file, and a prefix that is none of them
MagicPrefixes ==
  { <<254, 237, 250, 206>>, <<206, 250, 237, 254>>,
    <<254, 237, 250, 207>>, <<207, 250, 237, 254>>,
    <<202, 254, 186, 190>> }

\* the layout a file with this prefix is written in
PrefixIs64(p) == p[1] = 207 \/ p[4] = 207

PrefixIsLE(p) == p[4] = 254

Enc(w, le) == IF le THEN BytesLE(w) ELSE BytesBE(w)

\* declared sizes of the records of an input: well-formed ones and one below
\* the 8-byte frame
CmdSizes == {4, 8, 16}

\* record k of an input: a tag, the declared size, and the payload that size
\* announces (none when the size is below the frame), with distinct bytes
RecordBytes(k, size, le) ==
  Enc(<<0, 24 + k>>, le) \o Enc(FromInt(size), le)
    \o [j \in 1..(Max(size, 8) - 8) |-> 16 * k + j]

RECURSIVE TableBytes(_, _, _)
TableBytes(sizes, k, le) ==
  IF k > Len(sizes) THEN <<>>
  ELSE RecordBytes(k, sizes[k], le) \o TableBytes(sizes, k + 1, le)

RECURSIVE SumSeq(_)
SumSeq(q) == IF q = <<>> THEN 0 ELSE Head(q) + SumSeq(Tail(q))

\* sizeof-commands as a file may hold it: the true sum, a stale value, or a
\* value close to 2^32 (the field is never validated)
SizeofChoices(sizes) ==
  { FromInt(SumSeq(sizes)), FromInt(SumSeq(sizes) + 8), <<65535, 65528>> }

Trailings == { <<>>, <<222, 173, 190, 239, 1, 2, 3, 4>> }

FileBytes(p, sizes, sizeofcmds, trailing) ==
  LET le == PrefixIsLE(p)
  IN p \o Enc(<<0, 7>>, le) \o Enc(<<65535, 65533>>, le) \o Enc(<<0, 2>>, le)
       \o Enc(FromInt(Len(sizes)), le) \o Enc(sizeofcmds, le)
       \o Enc(<<0, 133>>, le)
       \o (IF PrefixIs64(p) THEN Enc(<<0, 0>>, le) ELSE <<>>)
       \o TableBytes(sizes, 1, le) \o trailing

\* truncated inputs: cut to 3 bytes, or with the last 4 bytes missing
Cuts == {"three", "chopped"}

CutBytes(s, cut) ==
  IF cut = "three" THEN SubSeq(s, 1, 3) ELSE SubSeq(s, 1, Len(s) - 4)

SizeSeqs == UNION { [1..n -> CmdSizes] : n \in 0..MaxCmds }

\* whole files, and truncated ones
InputsOf(p, sizes) ==
  { FileBytes(p, sizes, so, tr) : so \in SizeofChoices(sizes), tr \in Trailings }
    \cup { CutBytes(FileBytes(p, sizes, FromInt(SumSeq(sizes)), <<>>), cut) :
             cut \in Cuts }

Inputs == UNION { InputsOf(x[1], x[2]) : x \in MagicPrefixes \X SizeSeqs }

\* a path of n bytes, none of them zero
PathOf(n) == [i \in 1..n |-> IF i = 1 THEN 47 ELSE 96 + i]

Paths == { PathOf(n) : n \in 0..MaxPathLen }

\* ------------------------------------------------------------------ actions
Init ==
  /\ data \in Inputs
  /\ overflow_checks \in BOOLEAN
  /\ new_path = <<>>
  /\ pc = "idle"
  /\ result = "none"
  /\ err_kind = "none"
  /\ undersized = FALSE
  /\ is_64 = FALSE
  /\ is_little_endian = FALSE
  /\ header = NoHeader
  /\ load_commands = <<>>
  /\ header_size = 0
  /\ cmdsize = 0
  /\ insert_offset = 0
  /\ pre = data
  /\ calls = 0

\* add_rpath, line 101: parse_macho(data)?
AddRpathParse ==
  /\ pc = "idle"
  /\ calls < MaxCalls
  /\ \E path \in Paths :
       LET r == parse_macho(data, overflow_checks)
       IN /\ new_path' = path
          /\ pre' = data
          /\ is_64' = r.is_64
          /\ is_little_endian' = r.is_little_endian
          /\ header' = r.header
          /\ load_commands' = r.load_commands
          /\ undersized' = r.undersized
          /\ err_kind' = r.kind
          /\ result' = IF r.status = "ok" THEN "none" ELSE r.status
          /\ pc' = IF r.status = "ok" THEN "parsed" ELSE "done"
  /\ header_size' = 0
  /\ cmdsize' = 0
  /\ insert_offset' = 0
  /\ UNCHANGED <<data, overflow_checks, calls>>

\* add_rpath, lines 104-140: sizes, the insertion offset, the copy of the rest
\* of the file, the new record and the rest written back
AddRpathSplice ==
  /\ pc = "parsed"
  /\ LET hs == HeaderSize(header)
         off == InsertOffset(hs, load_commands)
         rest_of_file == ReadToEnd(data, off)
     IN /\ header_size' = hs
        /\ cmdsize' = CmdSize(new_path)
        /\ insert_offset' = off
        /\ data' = WriteAt(data, off, RpathBytes(new_path) \o rest_of_file)
  /\ pc' = "spliced"
  /\ UNCHANGED <<new_path, overflow_checks, result, err_kind, undersized, is_64,
                 is_little_endian, header, load_commands, pre, calls>>

\* add_rpath, lines 143-150: the two counters, in memory and then in the buffer
AddRpathUpdateHeader ==
  /\ pc = "spliced"
  /\ LET n == AddU32(header.ncmds, <<0, 1>>)
         s == AddU32(header.sizeofcmds, FromInt(cmdsize))
     IN IF overflow_checks /\ (n.overflow \/ s.overflow)
        THEN /\ result' = "panic"
             /\ err_kind' = "AddOverflow"
             /\ header' = IF n.overflow THEN header ELSE [header EXCEPT !.ncmds = n.v]
             /\ data' = data
        ELSE /\ result' = "ok"
             /\ err_kind' = "none"
             /\ header' = [header EXCEPT !.ncmds = n.v, !.sizeofcmds = s.v]
             /\ data' = WriteAt(data, 16, CounterBytes(n.v, s.v))
  /\ pc' = "done"
  /\ UNCHANGED <<new_path, overflow_checks, undersized, is_64, is_little_endian,
                 load_commands, header_size, cmdsize, insert_offset, pre, calls>>

\* add_rpath has returned Ok or Err: the caller holds the buffer again
Return ==
  /\ pc = "done"
  /\ result \in {"ok", "err"}
  /\ pc' = "idle"
  /\ calls' = calls + 1
  /\ UNCHANGED <<data, new_path, overflow_checks, result, err_kind, undersized,
                 is_64, is_little_endian, header, load_commands, header_size,
                 cmdsize, insert_offset, pre>>

Next == AddRpathParse \/ AddRpathSplice \/ AddRpathUpdateHeader \/ Return

Spec == Init /\ [][Next]_vars

\* ------------------------------------------------------------ properties
\* the call has returned Ok
Succeeded == pc = "done" /\ result = "ok"

\* the new record has been written into the buffer
RecordWritten ==
  \/ pc = "spliced"
  \/ pc = "done" /\ result = "ok"
  \/ pc = "done" /\ result = "panic" /\ err_kind = "AddOverflow"

\* a u32 of the buffer decoded with the byte order detected for the file
Decoded(s, p) == IF is_little_endian THEN U32LE(s, p) ELSE U32BE(s, p)

\* byte i (1-based) of s, or -1 past its end
ByteAt(s, i) == IF i \in 1..Len(s) THEN s[i] ELSE -1

\* the cmdsize field of the record at the insertion offset
WrittenCmdSize == ToInt(U32LE(data, insert_offset + 4))

RoundUp8(n) == ((n + 7) \div 8) * 8

\* C1: after a successful add_rpath the command-count at byte 16 and the
\* sizeof-commands at byte 20, decoded with the detected byte order, are the
\* old command-count + 1 and the old sizeof-commands + the new cmdsize (the
\* sums taken at the fields' 32 bits; C10 is about their overflow).
C1_CountersInDetectedOrder ==
  Succeeded =>
    /\ Decoded(data, 16) = AddU32(Decoded(pre, 16), <<0, 1>>).v
    /\ Decoded(data, 20) = AddU32(Decoded(pre, 20), FromInt(WrittenCmdSize)).v

\* C2: a successful add_rpath inserts exactly cmdsize bytes at the insertion
\* offset: the length grows by cmdsize and every original byte from the
\* insertion offset on reappears, in order, cmdsize bytes later.
C2_InsertsCmdSizeBytes ==
  Succeeded =>
    /\ Len(data) = Len(pre) + WrittenCmdSize
    /\ \A i \in (insert_offset + 1)..Len(pre) :
         ByteAt(data, i + WrittenCmdSize) = pre[i]

\* C3: after every successful add_rpath the header's sizeof-commands is the sum
\* of the declared sizes of all records now in the table and its command-count
\* is their number, whatever the header said on read.
C3_CountersMatchTable ==
  Succeeded =>
    /\ Decoded(data, 20) = FromInt(SumSizes(load_commands) + WrittenCmdSize)
    /\ Decoded(data, 16) = FromInt(Len(load_commands) + 1)

\* C4: the cmdsize written into the new record is 8 + 4 + len(path) + 1 rounded
\* up to the next multiple of 8.
C4_CmdSizeFormula ==
  RecordWritten => WrittenCmdSize = RoundUp8(8 + 4 + Len(new_path) + 1)

\* C5: in the inserted record the path-offset field holds 16, the path starts
\* at byte 16 of the record, its terminator follows the last path byte and
\* only zero bytes follow up to the record's end.
C5_OffsetPointsAtPath ==
  RecordWritten =>
    /\ U32LE(data, insert_offset + 8) = <<0, 16>>
    /\ \A i \in 1..Len(new_path) :
         ByteAt(data, insert_offset + 16 + i) = new_path[i]
    /\ \A j \in (insert_offset + 16 + Len(new_path) + 1)
                  ..(insert_offset + WrittenCmdSize) :
         ByteAt(data, j) = 0

\* C6: add_rpath has no partial outcome: an error leaves the buffer as it was,
\* and a buffer that was changed at all holds the new record and the updated
\* counters of a successful call.
C6_NoPartialOutcome ==
  pc = "done" =>
    /\ result = "err" => data = pre
    /\ \/ data = pre
       \/ /\ result = "ok"
          /\ SubSeq(data, insert_offset + 1, insert_offset + 4) = BytesLE(LC_RPATH)
          /\ U32LE(data, 16) = header.ncmds
          /\ U32LE(data, 20) = header.sizeofcmds

\* the magic in the first four bytes was accepted as the given word size and
\* byte order, and add_rpath, once it got there, used the given header size
AcceptedAs(w64, le, hsize) ==
  /\ err_kind # "InvalidData"
  /\ is_64 = w64
  /\ is_little_endian = le
  /\ (pc = "spliced" \/ Succeeded) => header_size = hsize

RejectedUnchanged(kind) ==
  /\ pc = "done"
  /\ result = "err"
  /\ err_kind = kind
  /\ data = pre

\* C7: the first 4 bytes, read big-endian, select (word size, byte order):
\* feedface and cefaedfe are 32-bit with header size 28, feedfacf and cffaedfe
\* 64-bit with header size 32, the second of each pair little-endian; any other
\* prefix and any buffer shorter than 4 bytes is an error result, not a panic.
C7_FormatDetection ==
  pc # "idle" =>
    IF Len(pre) < 4 THEN RejectedUnchanged("UnexpectedEof")
    ELSE LET p == SubSeq(pre, 1, 4)
         IN IF p = <<254, 237, 250, 206>> THEN AcceptedAs(FALSE, FALSE, 28)
            ELSE IF p = <<206, 250, 237, 254>> THEN AcceptedAs(FALSE, TRUE, 28)
            ELSE IF p = <<254, 237, 250, 207>> THEN AcceptedAs(TRUE, FALSE, 32)
            ELSE IF p = <<207, 250, 237, 254>> THEN AcceptedAs(TRUE, TRUE, 32)
            ELSE RejectedUnchanged("InvalidData")

\* a 64-bit little-endian file (cf fa ed fe) went through a whole successful
\* call with header size 32
C7_Witness ==
  /\ Succeeded
  /\ SubSeq(pre, 1, 4) = <<207, 250, 237, 254>>
  /\ is_64 /\ is_little_endian
  /\ header_size = 32
  /\ insert_offset > 32

\* C8: a record that declares a size below 8 makes the call return an error,
\* with the buffer unchanged.
C8_UndersizedIsError ==
  (pc = "done" /\ undersized) => (result = "err" /\ data = pre)

\* C9: after a successful call the new record lies at header size + the sum of
\* the sizes parsed before the call, and parsing the buffer again yields the
\* records parsed before, unchanged and in order, then one record with tag
\* 0x8000001c.
C9_ReparseAppendsOne ==
  Succeeded =>
    LET r == parse_macho(data, overflow_checks)
        n == Len(load_commands)
    IN /\ insert_offset = (IF is_64 THEN 32 ELSE 28) + SumSizes(load_commands)
       /\ r.status = "ok"
       /\ Len(r.load_commands) = n + 1
       /\ SubSeq(r.load_commands, 1, n) = load_commands
       /\ r.load_commands[n + 1].cmd = LC_RPATH

\* C10: old sizeof-commands + cmdsize stays below 2^32 whenever the buffer
\* parsed, so the update neither wraps nor aborts after the record is written.
C10_NoCounterOverflow ==
  (pc = "done" /\ RecordWritten) =>
    /\ result = "ok"
    /\ ~AddU32(Decoded(pre, 20), FromInt(cmdsize)).overflow

====
